---- MODULE Spec2Model ----
(***************************************************************************)
(* Model of FirefuseProvider (src/src/components/FirefuseProvider.tsx) and  *)
(* Logger (src/src/services/Logger.ts).                                     *)
(*                                                                          *)
(* The source file holds four variants of the provider:                     *)
(*   "pendingUrl"   lines   1-236  logout stores logoutUrl, getAuthUrl      *)
(*   "minimal"      lines 238-373  loginWithRedirect and logout only        *)
(*   "loginUrl"     lines 375-614  logout navigates, getLoginUrl/...        *)
(*   "autoRedirect" lines 616-709  redirects when no user is signed in      *)
(* A behaviour of the model is one page load of one of them.                *)
(*                                                                          *)
(* Strings are sequences of UTF-16 code units (natural numbers).            *)
(***************************************************************************)
EXTENDS Naturals, Integers, Sequences, FiniteSets, TLC

\* ------------------------------------------------------------------------
\* JavaScript values and completions
\* ------------------------------------------------------------------------

Ok(v) == [ok |-> TRUE, val |-> v]

Throw(e) == [ok |-> FALSE, err |-> e]

Undefined == [t |-> "undefined"]

JNull == [t |-> "null"]

JStr(s) == [t |-> "string", s |-> s]

JObj(props) == [t |-> "object", props |-> props]

\* JavaScript truthiness of the values the provider tests with || and if
Truthy(v) ==
  CASE v.t = "undefined" -> FALSE
    [] v.t = "null" -> FALSE
    [] v.t = "string" -> Len(v.s) > 0
    [] OTHER -> TRUE

\* ------------------------------------------------------------------------
\* btoa / atob (base64 over Latin-1 "binary strings")
\* ------------------------------------------------------------------------

B64Code(i) ==
  IF i < 26 THEN 65 + i
  ELSE IF i < 52 THEN 71 + i
  ELSE IF i < 62 THEN i - 4
  ELSE IF i = 62 THEN 43 ELSE 47

B64Index(c) ==
  IF c >= 65 /\ c <= 90 THEN c - 65
  ELSE IF c >= 97 /\ c <= 122 THEN c - 71
  ELSE IF c >= 48 /\ c <= 57 THEN c + 4
  ELSE IF c = 43 THEN 62
  ELSE IF c = 47 THEN 63 ELSE -1

RECURSIVE B64Enc(_)
B64Enc(s) ==
  IF Len(s) = 0 THEN <<>>
  ELSE IF Len(s) = 1 THEN
    <<B64Code(s[1] \div 4), B64Code((s[1] % 4) * 16), 61, 61>>
  ELSE IF Len(s) = 2 THEN
    <<B64Code(s[1] \div 4), B64Code((s[1] % 4) * 16 + s[2] \div 16),
      B64Code((s[2] % 16) * 4), 61>>
  ELSE
    <<B64Code(s[1] \div 4), B64Code((s[1] % 4) * 16 + s[2] \div 16),
      B64Code((s[2] % 16) * 4 + s[3] \div 64), B64Code(s[3] % 64)>>
    \o B64Enc(SubSeq(s, 4, Len(s)))

\* btoa throws InvalidCharacterError when a code unit is above 0xFF
btoa(s) ==
  IF \E i \in 1..Len(s) : s[i] > 255
  THEN Throw("InvalidCharacterError")
  ELSE Ok(B64Enc(s))

IsAsciiWhitespace(c) == c \in {9, 10, 12, 13, 32}

RECURSIVE B64Dec(_)
B64Dec(s) ==
  IF Len(s) < 2 THEN <<>>
  ELSE IF Len(s) = 2 THEN
    <<B64Index(s[1]) * 4 + B64Index(s[2]) \div 16>>
  ELSE IF Len(s) = 3 THEN
    <<B64Index(s[1]) * 4 + B64Index(s[2]) \div 16,
      (B64Index(s[2]) % 16) * 16 + B64Index(s[3]) \div 4>>
  ELSE
    <<B64Index(s[1]) * 4 + B64Index(s[2]) \div 16,
      (B64Index(s[2]) % 16) * 16 + B64Index(s[3]) \div 4,
      (B64Index(s[3]) % 4) * 64 + B64Index(s[4])>>
    \o B64Dec(SubSeq(s, 5, Len(s)))

\* atob: forgiving-base64 decode; throws InvalidCharacterError
atob(s) ==
  LET a == SelectSeq(s, LAMBDA c : ~IsAsciiWhitespace(c))
      b == IF Len(a) % 4 = 0 /\ Len(a) >= 2 /\ a[Len(a)] = 61 /\ a[Len(a) - 1] = 61
           THEN SubSeq(a, 1, Len(a) - 2)
           ELSE IF Len(a) % 4 = 0 /\ Len(a) >= 1 /\ a[Len(a)] = 61
           THEN SubSeq(a, 1, Len(a) - 1)
           ELSE a
  IN IF Len(b) % 4 = 1 \/ (\E i \in 1..Len(b) : B64Index(b[i]) < 0)
     THEN Throw("InvalidCharacterError")
     ELSE Ok(B64Dec(b))

\* ------------------------------------------------------------------------
\* JSON.stringify / JSON.parse
\* ------------------------------------------------------------------------

HexDigit(d) == IF d < 10 THEN 48 + d ELSE 87 + d

Hex4(c) ==
  <<HexDigit(c \div 4096), HexDigit((c \div 256) % 16),
    HexDigit((c \div 16) % 16), HexDigit(c % 16)>>

IsHighSurrogate(c) == c >= 55296 /\ c <= 56319

IsLowSurrogate(c) == c >= 56320 /\ c <= 57343

\* QuoteJSONString without the surrounding quotes
RECURSIVE QuoteChars(_, _)
QuoteChars(s, i) ==
  IF i > Len(s) THEN <<>>
  ELSE LET c == s[i] IN
    IF c = 34 THEN <<92, 34>> \o QuoteChars(s, i + 1)
    ELSE IF c = 92 THEN <<92, 92>> \o QuoteChars(s, i + 1)
    ELSE IF c = 8 THEN <<92, 98>> \o QuoteChars(s, i + 1)
    ELSE IF c = 9 THEN <<92, 116>> \o QuoteChars(s, i + 1)
    ELSE IF c = 10 THEN <<92, 110>> \o QuoteChars(s, i + 1)
    ELSE IF c = 12 THEN <<92, 102>> \o QuoteChars(s, i + 1)
    ELSE IF c = 13 THEN <<92, 114>> \o QuoteChars(s, i + 1)
    ELSE IF c < 32 THEN <<92, 117>> \o Hex4(c) \o QuoteChars(s, i + 1)
    ELSE IF IsHighSurrogate(c) /\ i < Len(s) /\ IsLowSurrogate(s[i + 1])
      THEN <<c, s[i + 1]>> \o QuoteChars(s, i + 2)
    ELSE IF IsHighSurrogate(c) \/ IsLowSurrogate(c)
      THEN <<92, 117>> \o Hex4(c) \o QuoteChars(s, i + 1)
    ELSE <<c>> \o QuoteChars(s, i + 1)

QuoteJSONString(s) == <<34>> \o QuoteChars(s, 1) \o <<34>>

\* JSON.stringify({ redirectUrl: s }) for a string s:  {"redirectUrl":"..."}
JSON_stringify(s) ==
  <<123, 34, 114, 101, 100, 105, 114, 101, 99, 116, 85, 114, 108, 34, 58>>
  \o QuoteJSONString(s) \o <<125>>

IsJsonWs(c) == c \in {9, 10, 13, 32}

RECURSIVE SkipWs(_, _)
SkipWs(s, i) ==
  IF i <= Len(s) /\ IsJsonWs(s[i]) THEN SkipWs(s, i + 1) ELSE i

HexVal(c) ==
  IF c >= 48 /\ c <= 57 THEN c - 48
  ELSE IF c >= 97 /\ c <= 102 THEN c - 87
  ELSE IF c >= 65 /\ c <= 70 THEN c - 55 ELSE -1

PFail(e) == [ok |-> FALSE, err |-> e]

POk(v, n) == [ok |-> TRUE, val |-> v, next |-> n]

\* the characters of a JSON string literal from position j (after the
\* opening quote) up to its closing quote
RECURSIVE PStr(_, _, _)
PStr(s, j, acc) ==
  IF j > Len(s) THEN PFail("SyntaxError")
  ELSE LET c == s[j] IN
    IF c = 34 THEN POk(acc, j + 1)
    ELSE IF c < 32 THEN PFail("SyntaxError")
    ELSE IF c # 92 THEN PStr(s, j + 1, Append(acc, c))
    ELSE IF j + 1 > Len(s) THEN PFail("SyntaxError")
    ELSE LET e == s[j + 1] IN
      IF e \in {34, 92, 47} THEN PStr(s, j + 2, Append(acc, e))
      ELSE IF e = 98 THEN PStr(s, j + 2, Append(acc, 8))
      ELSE IF e = 102 THEN PStr(s, j + 2, Append(acc, 12))
      ELSE IF e = 110 THEN PStr(s, j + 2, Append(acc, 10))
      ELSE IF e = 114 THEN PStr(s, j + 2, Append(acc, 13))
      ELSE IF e = 116 THEN PStr(s, j + 2, Append(acc, 9))
      ELSE IF e = 117 /\ j + 5 <= Len(s)
              /\ \A k \in 2..5 : HexVal(s[j + k]) >= 0
        THEN PStr(s, j + 6,
                  Append(acc, HexVal(s[j + 2]) * 4096 + HexVal(s[j + 3]) * 256
                              + HexVal(s[j + 4]) * 16 + HexVal(s[j + 5])))
      ELSE PFail("SyntaxError")

HasAt(s, i, lit) ==
  /\ i + Len(lit) - 1 <= Len(s)
  /\ \A k \in 1..Len(lit) : s[i + k - 1] = lit[k]

\* JSON values of the fragment the model parses: null, strings and objects
\* of them. Numbers, booleans and arrays are reported as "OutsideModel";
\* no input of the model contains one.
RECURSIVE PVal(_, _), PMembers(_, _, _)
PVal(s, i) ==
  IF i > Len(s) THEN PFail("SyntaxError")
  ELSE IF s[i] = 34 THEN
    LET r == PStr(s, i + 1, <<>>) IN
    IF r.ok THEN POk(JStr(r.val), r.next) ELSE r
  ELSE IF HasAt(s, i, <<110, 117, 108, 108>>) THEN POk(JNull, i + 4)
  ELSE IF s[i] = 123 THEN
    LET j == SkipWs(s, i + 1) IN
    IF j <= Len(s) /\ s[j] = 125 THEN POk(JObj(<<>>), j + 1)
    ELSE PMembers(s, j, <<>>)
  ELSE IF s[i] \in (48..57) \cup {45, 91, 116, 102} THEN PFail("OutsideModel")
  ELSE PFail("SyntaxError")

PMembers(s, i, acc) ==
  IF i > Len(s) \/ s[i] # 34 THEN PFail("SyntaxError")
  ELSE LET k == PStr(s, i + 1, <<>>) IN
    IF ~k.ok THEN k
    ELSE LET j == SkipWs(s, k.next) IN
      IF j > Len(s) \/ s[j] # 58 THEN PFail("SyntaxError")
      ELSE LET v == PVal(s, SkipWs(s, j + 1)) IN
        IF ~v.ok THEN v
        ELSE LET m == SkipWs(s, v.next)
                 props == Append(acc, <<k.val, v.val>>) IN
          IF m > Len(s) THEN PFail("SyntaxError")
          ELSE IF s[m] = 125 THEN POk(JObj(props), m + 1)
          ELSE IF s[m] = 44 THEN PMembers(s, SkipWs(s, m + 1), props)
          ELSE PFail("SyntaxError")

JSON_parse(s) ==
  LET r == PVal(s, SkipWs(s, 1)) IN
  IF ~r.ok THEN Throw(r.err)
  ELSE IF SkipWs(s, r.next) # Len(s) + 1 THEN Throw("SyntaxError")
  ELSE Ok(r.val)

\* obj.key of a parsed value: the last member named key, else undefined
RECURSIVE PropFrom(_, _, _)
PropFrom(props, key, i) ==
  IF i = 0 THEN Undefined
  ELSE IF props[i][1] = key THEN props[i][2]
  ELSE PropFrom(props, key, i - 1)

GetProp(v, key) ==
  IF v.t = "object" THEN PropFrom(v.props, key, Len(v.props)) ELSE Undefined

\* const { token } = v : TypeError when v is null or undefined
DestructureToken(v) ==
  IF v.t \in {"null", "undefined"} THEN Throw("TypeError")
  ELSE Ok(GetProp(v, <<116, 111, 107, 101, 110>>))

\* ------------------------------------------------------------------------
\* new URLSearchParams(window.location.search).get('state')
\* ------------------------------------------------------------------------

\* application/x-www-form-urlencoded decoding of one value: '+' is a space,
\* %XX is the byte XX (the inputs of the model are ASCII)
RECURSIVE FormDecode(_, _)
FormDecode(s, i) ==
  IF i > Len(s) THEN <<>>
  ELSE IF s[i] = 43 THEN <<32>> \o FormDecode(s, i + 1)
  ELSE IF s[i] = 37 /\ i + 2 <= Len(s)
          /\ HexVal(s[i + 1]) >= 0 /\ HexVal(s[i + 2]) >= 0
    THEN <<HexVal(s[i + 1]) * 16 + HexVal(s[i + 2])>> \o FormDecode(s, i + 3)
  ELSE <<s[i]>> \o FormDecode(s, i + 1)

\* search is the raw text of the state parameter, or JNull without one
URLSearchParams_get(search) ==
  IF search.t = "null" THEN JNull ELSE JStr(FormDecode(search.s, 1))

\* ------------------------------------------------------------------------
\* Configuration and inputs
\* ------------------------------------------------------------------------

Variants == {"pendingUrl", "minimal", "loginUrl", "autoRedirect"}

\* variants whose token-exchange and subscription effects depend on
\* [logger, firebaseAuth]; the autoRedirect variant uses [] and [tokenChecked]
EffectsFollowProps(v) == v \in {"pendingUrl", "minimal", "loginUrl"}

\* variants that call window.history.replaceState after a successful exchange
StripsState(v) == v \in {"pendingUrl", "loginUrl"}

\* the domain prop
Domain == "app.example.com"

\* values of the redirectUrl prop:  "h"  and  "h" followed by U+0100
RedirectUrls == { <<104>>, <<104, 256>> }

NoUser == "null"

Users == {"u1", "u2"}

\* decoded JSON texts the hosted page may hand over
TokenJson == <<123, 34, 116, 111, 107, 101, 110, 34, 58, 34, 116, 34, 125>>

TokenRedirectJson ==
  <<123, 34, 116, 111, 107, 101, 110, 34, 58, 34, 116, 126, 34, 44,
    34, 114, 101, 100, 105, 114, 101, 99, 116, 85, 114, 108, 34, 58, 34, 104, 34, 125>>

\* percent-encoding of '+', '/' and '=' as the hosted page writes the query
RECURSIVE FormEncode(_)
FormEncode(s) ==
  IF Len(s) = 0 THEN <<>>
  ELSE (IF Head(s) = 43 THEN <<37, 50, 66>>
        ELSE IF Head(s) = 47 THEN <<37, 50, 70>>
        ELSE IF Head(s) = 61 THEN <<37, 51, 68>>
        ELSE <<Head(s)>>) \o FormEncode(Tail(s))

\* values of window.location.search at page load (the state parameter):
\* none, empty, two valid payloads, not base64 ("!!!"), base64 of "abc",
\* base64 of "null", base64 of "{}"
ValidSearches ==
  { JStr(FormEncode(B64Enc(TokenJson))),
    JStr(FormEncode(B64Enc(TokenRedirectJson))) }

MalformedSearches ==
  { JStr(<<33, 33, 33>>),
    JStr(B64Enc(<<97, 98, 99>>)) }

Searches ==
  {JNull, JStr(<<>>)} \cup ValidSearches \cup MalformedSearches
  \cup { JStr(FormEncode(B64Enc(<<110, 117, 108, 108>>))),
         JStr(FormEncode(B64Enc(<<123, 125>>))) }

\* bound of the model: the number of outside stimuli in one page load (prop
\* changes, calls of logout, loginWithRedirect and registerWithRedirect,
\* sign-ins and sign-outs from outside the provider)
MaxStimuli == 2

\* ------------------------------------------------------------------------
\* State
\* ------------------------------------------------------------------------

VARIABLES
  variant,       \* which variant of the provider is mounted
  redirectUrl,   \* prop: default redirect URL
  initialSearch, \* window.location.search when the page was loaded
  search,        \* window.location.search: raw state parameter or JNull
  debug,         \* prop
  firebaseAuth,  \* prop: identity of the Auth instance
  stimuli,       \* number of outside stimuli so far
  mounted,       \* the provider is mounted
  effectError,   \* error thrown out of an effect, "none" if none
  tokenChecked,  \* useState(false)
  state,         \* useState({loading: true, user: null})
  tokDirty,      \* the token-exchange effect is scheduled
  subDirty,      \* the subscription effect is scheduled
  navDirty,      \* the auto-redirect effect is scheduled
  subsLive,      \* live onAuthStateChanged subscriptions
  eventQ,        \* auth-state events not yet delivered to the callback
  sdkUser,       \* the SDK's current user
  exchanges,     \* the signInWithCustomToken calls made
  errorLog,      \* what logger.error printed
  ctx,           \* what the provider last rendered
  snapshots,     \* every value state has held
  logoutUrl,     \* useRef<string>() of the pendingUrl variant
  logouts,       \* the logout calls made
  navLog,        \* the navigations issued (window.location.replace), each
                 \* with the logout call that issued it and the state of
                 \* that call's signOut at the time
  lastEvent,     \* the user of the last auth-state event handed to the
                 \* callback, "none" before the first
  returned       \* what the call of loginWithRedirect, registerWithRedirect
                 \* or a URL getter made in the last step handed back to
                 \* its caller; NoCall when the last step was no such call

vars ==
  <<variant, redirectUrl, initialSearch, search, debug, firebaseAuth, stimuli, mounted,
    effectError, tokenChecked, state, tokDirty, subDirty, navDirty, subsLive,
    eventQ, sdkUser, exchanges, errorLog, ctx, snapshots,
    logoutUrl, logouts, navLog, lastEvent, returned>>

\* ------------------------------------------------------------------------
\* Logger
\* ------------------------------------------------------------------------

\* Logger.error prints whatever the debug flag is; console.log output of
\* Logger.log is not part of the state
Logger_error(log, e) == Append(log, e)

\* ------------------------------------------------------------------------
\* URL construction
\* ------------------------------------------------------------------------

\* `https://${domain}/${page}?state=${btoa(JSON.stringify({redirectUrl: r}))}`
\* The template literal is kept as its three holes.
BuildAuthUrl(page, r) ==
  LET e == btoa(JSON_stringify(r)) IN
  IF e.ok
  THEN Ok([t |-> "authUrl", host |-> Domain, path |-> page, state |-> e.val])
  ELSE e

\* the template literal evaluated, once, for every page and every redirect
\* URL that reaches it (the configured defaults, "x", and "x" followed by
\* U+0100)
AuthUrls ==
  [page \in {"sign-in", "sign-up"},
   r \in RedirectUrls \cup {<<120>>, <<120, 256>>} |-> BuildAuthUrl(page, r)]

AuthUrl(page, r) == AuthUrls[page, r]

\* ------------------------------------------------------------------------
\* Render
\* ------------------------------------------------------------------------

Loader == [t |-> "loader"]

Unrendered == [t |-> "none"]

\* a context value whose isAuthenticated is derived from the loading flag
ContextValue_AuthFromLoading(s) ==
  [t |-> "context", user |-> s.user, isAuthenticated |-> ~s.loading,
   isLoading |-> s.loading]

ContextValue(s) ==
  [t |-> "context", user |-> s.user, isAuthenticated |-> s.user # NoUser,
   isLoading |-> s.loading]

\* a render without the `if (state.loading) return loader || null` line
RenderOutput_NoLoadingGate(v, s) == ContextValue(s)

RenderOutput(v, s) ==
  IF v = "autoRedirect"
  THEN IF s.loading \/ s.user = NoUser THEN Unrendered
       ELSE [t |-> "context", user |-> s.user]
  ELSE IF s.loading THEN Loader ELSE ContextValue(s)

\* ------------------------------------------------------------------------
\* Mount
\* ------------------------------------------------------------------------

NoCall == [op |-> "none"]

InitialState == [loading |-> TRUE, user |-> NoUser]

Init ==
  /\ variant \in Variants
  /\ redirectUrl \in RedirectUrls
  /\ initialSearch \in Searches
  /\ search = initialSearch
  /\ debug = FALSE
  /\ firebaseAuth = 0
  /\ stimuli = 0
  /\ mounted = TRUE
  /\ effectError = "none"
  /\ tokenChecked = FALSE
  /\ state = InitialState
  /\ tokDirty = TRUE
  /\ subDirty = TRUE
  /\ navDirty = (variant = "autoRedirect")
  /\ subsLive = 0
  /\ eventQ = <<>>
  /\ sdkUser = NoUser
  /\ exchanges = <<>>
  /\ errorLog = <<>>
  /\ ctx = RenderOutput(variant, InitialState)
  /\ snapshots = {InitialState}
  /\ logoutUrl = Undefined
  /\ logouts = <<>>
  /\ navLog = <<>>
  /\ lastEvent = "none"
  /\ returned = NoCall

\* ------------------------------------------------------------------------
\* Effects
\* ------------------------------------------------------------------------

\* the body of the token-exchange effect up to the signInWithCustomToken call
TokenEffect(srch) ==
  LET st == URLSearchParams_get(srch) IN
  IF ~Truthy(st) THEN [kind |-> "absent"]
  ELSE LET d == atob(st.s) IN
    IF ~d.ok THEN [kind |-> "throw", err |-> d.err]
    ELSE LET j == JSON_parse(d.val) IN
      IF ~j.ok THEN [kind |-> "throw", err |-> j.err]
      ELSE LET tk == DestructureToken(j.val) IN
        IF ~tk.ok THEN [kind |-> "throw", err |-> tk.err]
        ELSE [kind |-> "exchange", token |-> tk.val]

\* the body of the auto-redirect effect: the URL it navigates to, if any
AutoRedirectEffect(s, r) ==
  IF ~s.loading /\ s.user = NoUser
  THEN LET u == AuthUrl("sign-in", r) IN
       IF u.ok THEN [kind |-> "navigate", url |-> u.val]
       ELSE [kind |-> "throw", err |-> u.err]
  ELSE [kind |-> "skip"]

\* the subscription effect body: whether it subscribes
SubscribesNow(checked) == checked

\* a subscription effect that returns no cleanup
Cleanup_Leaks(live) == live

\* the cleanup the subscription effect returned, `() => unsubscribe()`:
\* the live subscriptions afterwards
Cleanup(live) == IF live > 0 THEN live - 1 ELSE 0

\* React flushes the scheduled passive effects of one commit: the cleanups
\* (unsubscribe) first, then the effect bodies in source order. An effect
\* that throws takes the tree down.
FlushEffects ==
  /\ mounted
  /\ tokDirty \/ subDirty \/ navDirty
  /\ LET tok == IF tokDirty THEN TokenEffect(search) ELSE [kind |-> "skip"]
         nav == IF navDirty THEN AutoRedirectEffect(state, redirectUrl)
                ELSE [kind |-> "skip"]
         threw == tok.kind = "throw" \/ nav.kind = "throw"
         checked == tokenChecked \/ tok.kind = "absent"
         keeps == IF subDirty THEN Cleanup(subsLive) ELSE subsLive
         subscribes == subDirty /\ SubscribesNow(tokenChecked)
     IN /\ exchanges' = IF tok.kind = "exchange"
                        THEN Append(exchanges,
                                    [token |-> tok.token, auth |-> firebaseAuth,
                                     status |-> "pending"])
                        ELSE exchanges
        /\ navLog' = IF nav.kind = "navigate"
                     THEN Append(navLog, [url |-> nav.url, by |-> "autoRedirect",
                                          call |-> 0, signOut |-> "none"])
                     ELSE navLog
        /\ IF threw
           THEN /\ effectError' = IF tok.kind = "throw" THEN tok.err ELSE nav.err
                /\ mounted' = FALSE
                /\ ctx' = Unrendered
                /\ subsLive' = Cleanup(subsLive)
                /\ eventQ' = <<>>
                /\ UNCHANGED <<tokenChecked, subDirty>>
           ELSE /\ tokenChecked' = checked
                /\ subDirty' = (checked # tokenChecked)
                /\ subsLive' = IF subscribes THEN keeps + 1 ELSE keeps
                /\ eventQ' = IF subscribes THEN <<sdkUser>>
                             ELSE IF subDirty THEN <<>> ELSE eventQ
                /\ UNCHANGED <<effectError, mounted, ctx>>
        /\ tokDirty' = FALSE
        /\ navDirty' = FALSE
        /\ returned' = NoCall
        /\ UNCHANGED <<variant, redirectUrl, initialSearch, search, debug,
                       firebaseAuth, stimuli, state, sdkUser, errorLog,
                       snapshots, logoutUrl, logouts, lastEvent>>

\* setTokenChecked(true) from the promise chain: ignored once unmounted
SetTokenChecked ==
  IF mounted /\ ~tokenChecked
  THEN tokenChecked' = TRUE /\ subDirty' = TRUE
  ELSE UNCHANGED <<tokenChecked, subDirty>>

\* the SDK's user changes to u: live subscriptions are notified
Notify(u) ==
  IF subsLive > 0 /\ u # sdkUser THEN Append(eventQ, u) ELSE eventQ

\* a then-handler without the replaceState call
AfterSignIn_NoStrip(v, srch) == srch

\* then-handler of the exchange: the URL afterwards
AfterSignIn(v, srch) == IF StripsState(v) THEN JNull ELSE srch

\* the user a custom token signs in:  "t" is u1's token, any other u2's
UserOf(token) == IF token.s = <<116>> THEN "u1" ELSE "u2"

\* signInWithCustomToken resolves with user u: .then, then .finally
ExchangeResolve(i, u) ==
  /\ exchanges[i].status = "pending"
  /\ exchanges[i].token.t = "string"
  /\ u = UserOf(exchanges[i].token)
  /\ exchanges' = [exchanges EXCEPT ![i].status = "resolved"]
  /\ sdkUser' = u
  /\ eventQ' = Notify(u)
  /\ search' = AfterSignIn(variant, search)
  /\ SetTokenChecked
  /\ returned' = NoCall
  /\ UNCHANGED <<variant, redirectUrl, initialSearch, debug, firebaseAuth,
                 stimuli, mounted, effectError, state, tokDirty, navDirty,
                 subsLive, errorLog, ctx, snapshots, logoutUrl, logouts,
                 navLog, lastEvent>>

\* a promise chain whose rejection path never reaches setTokenChecked
ExchangeReject_NoFinally(i) ==
  /\ exchanges[i].status = "pending"
  /\ exchanges' = [exchanges EXCEPT ![i].status = "rejected"]
  /\ errorLog' = Logger_error(errorLog, "exchange")
  /\ returned' = NoCall
  /\ UNCHANGED <<variant, redirectUrl, initialSearch, search, debug,
                 firebaseAuth, stimuli, mounted, effectError, state, tokDirty,
                 navDirty, subsLive, eventQ, sdkUser, ctx, snapshots,
                 logoutUrl, logouts, navLog, tokenChecked, subDirty,
                 lastEvent>>

\* signInWithCustomToken rejects: .catch(logger.error), then .finally
ExchangeReject(i) ==
  /\ exchanges[i].status = "pending"
  /\ exchanges' = [exchanges EXCEPT ![i].status = "rejected"]
  /\ errorLog' = Logger_error(errorLog, "exchange")
  /\ SetTokenChecked
  /\ returned' = NoCall
  /\ UNCHANGED <<variant, redirectUrl, initialSearch, search, debug,
                 firebaseAuth, stimuli, mounted, effectError, state, tokDirty,
                 navDirty, subsLive, eventQ, sdkUser, ctx, snapshots,
                 logoutUrl, logouts, navLog, lastEvent>>

ExchangeSettle ==
  \E i \in 1..Len(exchanges) :
    \/ \E u \in Users : ExchangeResolve(i, u)
    \/ ExchangeReject(i)

\* a callback that forgets to clear the loading flag
AuthStateCallback_KeepsLoading(user) == [loading |-> TRUE, user |-> user]

\* a callback that derives the loading flag from the user
AuthStateCallback_LoadingFollowsUser(user) ==
  [loading |-> user = NoUser, user |-> user]

\* a callback that drops the user of the event
AuthStateCallback_DropsUser(user) == [loading |-> FALSE, user |-> NoUser]

\* the onAuthStateChanged callback: setState({loading: false, user})
AuthStateCallback(user) == [loading |-> FALSE, user |-> user]

DeliverAuthEvent ==
  /\ subsLive > 0
  /\ eventQ # <<>>
  /\ state' = AuthStateCallback(Head(eventQ))
  /\ eventQ' = Tail(eventQ)
  /\ lastEvent' = Head(eventQ)
  /\ snapshots' = snapshots \cup {state'}
  /\ navDirty' = (navDirty \/ (variant = "autoRedirect" /\ state' # state))
  /\ returned' = NoCall
  /\ UNCHANGED <<variant, redirectUrl, initialSearch, search, debug,
                 firebaseAuth, stimuli, mounted, effectError, tokenChecked,
                 tokDirty, subDirty, subsLive, sdkUser, exchanges, errorLog,
                 ctx, logoutUrl, logouts, navLog>>

\* the provider re-renders with the current state
Render ==
  /\ mounted
  /\ ctx # RenderOutput(variant, state)
  /\ ctx' = RenderOutput(variant, state)
  /\ returned' = NoCall
  /\ UNCHANGED <<variant, redirectUrl, initialSearch, search, debug,
                 firebaseAuth, stimuli, mounted, effectError, tokenChecked,
                 state, tokDirty, subDirty, navDirty, subsLive, eventQ,
                 sdkUser, exchanges, errorLog, snapshots, logoutUrl, logouts,
                 navLog, lastEvent>>

\* the parent re-renders the provider with another debug flag or another
\* Auth instance; logger is re-created when debug changes
PropChange ==
  /\ mounted
  /\ stimuli < MaxStimuli
  /\ stimuli' = stimuli + 1
  /\ \/ debug' = ~debug /\ UNCHANGED firebaseAuth
     \/ firebaseAuth' = firebaseAuth + 1 /\ UNCHANGED debug
  /\ tokDirty' = (tokDirty \/ EffectsFollowProps(variant))
  /\ subDirty' = (subDirty \/ EffectsFollowProps(variant))
  /\ returned' = NoCall
  /\ UNCHANGED <<variant, redirectUrl, initialSearch, search, mounted,
                 effectError, tokenChecked, state, navDirty, subsLive, eventQ,
                 sdkUser, exchanges, errorLog, ctx, snapshots, logoutUrl,
                 logouts, navLog, lastEvent>>

\* unmount (or page unload): effect cleanups run
Unmount ==
  /\ mounted
  /\ mounted' = FALSE
  /\ ctx' = Unrendered
  /\ subsLive' = Cleanup(subsLive)
  /\ eventQ' = <<>>
  /\ returned' = NoCall
  /\ UNCHANGED <<variant, redirectUrl, initialSearch, search, debug,
                 firebaseAuth, stimuli, effectError, tokenChecked, state,
                 tokDirty, subDirty, navDirty, sdkUser, exchanges, errorLog,
                 snapshots, logoutUrl, logouts, navLog, lastEvent>>

\* a sign-in (as u2) or sign-out the provider did not start (another tab,
\* expiry)
SdkChange ==
  /\ mounted
  /\ stimuli < MaxStimuli
  /\ stimuli' = stimuli + 1
  /\ LET u == IF sdkUser = NoUser THEN "u2" ELSE NoUser IN
       /\ sdkUser' = u
       /\ eventQ' = Notify(u)
  /\ returned' = NoCall
  /\ UNCHANGED <<variant, redirectUrl, initialSearch, search, debug,
                 firebaseAuth, mounted, effectError, tokenChecked, state,
                 tokDirty, subDirty, navDirty, subsLive, exchanges, errorLog,
                 ctx, snapshots, logoutUrl, logouts, navLog, lastEvent>>

\* ------------------------------------------------------------------------
\* logout
\* ------------------------------------------------------------------------

\* the params a consumer may pass to logout; the minimal variant takes none
LogoutParams(v) ==
  IF v = "minimal"
  THEN { [redirectUrl |-> Undefined, noRedirect |-> FALSE] }
  ELSE [redirectUrl : {Undefined, JStr(<<120>>)},
        noRedirect : IF v = "loginUrl" THEN BOOLEAN ELSE {FALSE}]

\* params.redirectUrl || `https://${domain}/sign-in?state=${btoa(...)}`
LogoutRedirect(params, r) ==
  IF Truthy(params.redirectUrl) THEN Ok(params.redirectUrl)
  ELSE AuthUrl("sign-in", r)

\* the synchronous part of logout, up to the signOut call:
\*   pendingUrl: logoutUrl.current = <redirect>
\*   minimal:    nothing
\*   loginUrl:   if (!params.noRedirect) window.location.replace(<redirect>)
LogoutBeforeSignOut(v, params, r) ==
  IF v = "minimal" \/ (v = "loginUrl" /\ params.noRedirect)
  THEN [kind |-> "none"]
  ELSE LET u == LogoutRedirect(params, r) IN
    IF ~u.ok THEN [kind |-> "throw", err |-> u.err]
    ELSE IF v = "pendingUrl" THEN [kind |-> "store", url |-> u.val]
    ELSE [kind |-> "navigate", url |-> u.val]

\* the navigation logout issues after signOut has settled: none in any variant
LogoutAfterSignOut(v, params, r) == [kind |-> "none"]

\* a consumer calls logout(params); the call runs up to `await signOut(...)`
Logout ==
  /\ mounted
  /\ variant # "autoRedirect"
  /\ ctx.t = "context"
  /\ stimuli < MaxStimuli
  /\ stimuli' = stimuli + 1
  /\ \E params \in LogoutParams(variant) :
       LET pre == LogoutBeforeSignOut(variant, params, redirectUrl) IN
       /\ logouts' = Append(logouts,
            IF pre.kind = "throw"
            THEN [params |-> params, signOut |-> "notcalled",
                  result |-> "rejected", error |-> pre.err]
            ELSE [params |-> params, signOut |-> "pending",
                  result |-> "pending", error |-> "none"])
       /\ navLog' = IF pre.kind = "navigate"
                    THEN Append(navLog, [url |-> pre.url, by |-> "logout",
                                         call |-> Len(logouts) + 1,
                                         signOut |-> "notcalled"])
                    ELSE navLog
       /\ logoutUrl' = IF pre.kind = "store" THEN pre.url ELSE logoutUrl
  /\ returned' = NoCall
  /\ UNCHANGED <<variant, redirectUrl, initialSearch, search, debug,
                 firebaseAuth, mounted, effectError, tokenChecked, state,
                 tokDirty, subDirty, navDirty, subsLive, eventQ, sdkUser,
                 exchanges, errorLog, ctx, snapshots, lastEvent>>

\* a logout that catches the rejection of signOut
LogoutOutcome_Swallows(settled) == [result |-> "fulfilled", error |-> "none"]

\* what the promise returned by logout settles to once signOut has settled:
\* `await signOut(firebaseAuth)` (or `return signOut(firebaseAuth)`) passes
\* a rejection on, no handler is attached
LogoutOutcome(settled) ==
  IF settled = "rejected"
  THEN [result |-> "rejected", error |-> "signOut"]
  ELSE [result |-> "fulfilled", error |-> "none"]

\* a logout that takes the stored URL back when signOut rejects
LogoutUrlAfterSignOut_RollsBack(pending, settled) ==
  IF settled = "rejected" THEN Undefined ELSE pending

\* logoutUrl.current once signOut has settled: `await signOut(firebaseAuth)`
\* is the last statement of logout, in no try block, so the ref keeps what
\* it holds
LogoutUrlAfterSignOut(pending, settled) == pending

\* a logout that clears the user itself once signOut has resolved
SignOutSettle_ClearsUser ==
  \E i \in 1..Len(logouts) :
    /\ logouts[i].signOut = "pending"
    /\ logouts' = [logouts EXCEPT ![i].signOut = "resolved",
                                  ![i].result = "fulfilled"]
    /\ sdkUser' = NoUser
    /\ eventQ' = Notify(NoUser)
    /\ state' = [state EXCEPT !.user = NoUser]
    /\ snapshots' = snapshots \cup {state'}
    /\ returned' = NoCall
    /\ UNCHANGED <<variant, redirectUrl, initialSearch, search, debug,
                   firebaseAuth, stimuli, mounted, effectError, tokenChecked,
                   tokDirty, subDirty, navDirty, subsLive, exchanges,
                   errorLog, ctx, logoutUrl, navLog, lastEvent>>

\* signOut settles and the async function continues after the await
SignOutSettle ==
  \E i \in 1..Len(logouts) :
    /\ logouts[i].signOut = "pending"
    /\ \/ /\ sdkUser' = NoUser
          /\ eventQ' = Notify(NoUser)
          /\ LET post == LogoutAfterSignOut(variant, logouts[i].params, redirectUrl) IN
             /\ navLog' = IF post.kind = "navigate"
                          THEN Append(navLog, [url |-> post.url, by |-> "logout",
                                               call |-> i,
                                               signOut |-> "resolved"])
                          ELSE navLog
             /\ logouts' = [logouts EXCEPT
                              ![i].signOut = "resolved",
                              ![i].result = LogoutOutcome("resolved").result,
                              ![i].error = LogoutOutcome("resolved").error]
          /\ logoutUrl' = LogoutUrlAfterSignOut(logoutUrl, "resolved")
       \/ /\ logouts' = [logouts EXCEPT
                           ![i].signOut = "rejected",
                           ![i].result = LogoutOutcome("rejected").result,
                           ![i].error = LogoutOutcome("rejected").error]
          /\ logoutUrl' = LogoutUrlAfterSignOut(logoutUrl, "rejected")
          /\ UNCHANGED <<sdkUser, eventQ, navLog>>
    /\ returned' = NoCall
    /\ UNCHANGED <<variant, redirectUrl, initialSearch, search, debug,
                   firebaseAuth, stimuli, mounted, effectError, tokenChecked,
                   state, tokDirty, subDirty, navDirty, subsLive, exchanges,
                   errorLog, ctx, snapshots, lastEvent>>

\* ------------------------------------------------------------------------
\* loginWithRedirect / registerWithRedirect / URL getters
\* ------------------------------------------------------------------------

\* the params a consumer may pass:  redirectUrl missing, "", "x", and "x"
\* followed by U+0100
LoginParams ==
  [redirectUrl : {Undefined, JStr(<<>>), JStr(<<120>>), JStr(<<120, 256>>)}]

\* the params the URL getters are called with:  redirectUrl missing or "x"
\* (the configured default they fall back to is "h" or "h" followed by
\* U+0100)
GetterParams == [redirectUrl : {Undefined, JStr(<<120>>)}]

\* the params getAuthUrl is called with: none, or both a redirectUrl and a
\* page; page "undefined" stands for a missing page
AuthUrlParams ==
  { [redirectUrl |-> Undefined, page |-> "undefined"],
    [redirectUrl |-> JStr(<<120>>), page |-> "sign-up"] }

\* params.redirectUrl || redirectUrl
RedirectOrDefault(params, r) ==
  IF Truthy(params.redirectUrl) THEN params.redirectUrl.s ELSE r

\* params.page || 'sign-in'
PageOrSignIn(params) ==
  IF params.page = "undefined" THEN "sign-in" ELSE params.page

\* the argument loginWithRedirect builds for window.location.replace
LoginRedirect(params, r) == AuthUrl("sign-in", RedirectOrDefault(params, r))

\* the argument registerWithRedirect builds for window.location.replace
RegisterRedirect(params, r) == AuthUrl("sign-up", RedirectOrDefault(params, r))

\* a getLoginUrl that always encodes the configured default
getLoginUrl_IgnoresParams(params, r) == AuthUrl("sign-in", r)

\* getLoginUrl(params)
getLoginUrl(params, r) == AuthUrl("sign-in", RedirectOrDefault(params, r))

\* getRegisterUrl(params)
getRegisterUrl(params, r) == AuthUrl("sign-up", RedirectOrDefault(params, r))

\* getAuthUrl(params) with logoutUrl.current = pending:
\*   logoutUrl.current || `https://${domain}/${params.page || 'sign-in'}?...`
getAuthUrl(pending, params, r) ==
  IF Truthy(pending) THEN Ok(pending)
  ELSE AuthUrl(PageOrSignIn(params), RedirectOrDefault(params, r))

\* variants whose context value has the operation
Offers(v, op) ==
  CASE op = "loginWithRedirect" -> v \in {"pendingUrl", "minimal", "loginUrl"}
    [] op = "registerWithRedirect" -> v \in {"pendingUrl", "loginUrl"}
    [] op \in {"getLoginUrl", "getRegisterUrl"} -> v = "loginUrl"
    [] op = "getAuthUrl" -> v = "pendingUrl"
    [] OTHER -> FALSE

\* a consumer holds the context value of a mounted provider
ConsumerCanCall(op) == mounted /\ ctx.t = "context" /\ Offers(variant, op)

\* loginWithRedirect / registerWithRedirect: build the URL, then
\* window.location.replace(url); nothing is returned
Redirect(op, params, u) ==
  /\ returned' = [op |-> op, params |-> params,
                  out |-> IF u.ok THEN Ok(Undefined) ELSE u,
                  nav |-> IF u.ok THEN u.val ELSE Undefined]
  /\ navLog' = IF u.ok
               THEN Append(navLog, [url |-> u.val, by |-> op, call |-> 0,
                                    signOut |-> "none"])
               ELSE navLog

LoginWithRedirect ==
  /\ ConsumerCanCall("loginWithRedirect")
  /\ stimuli < MaxStimuli
  /\ stimuli' = stimuli + 1
  /\ \E params \in LoginParams :
       Redirect("loginWithRedirect", params, LoginRedirect(params, redirectUrl))
  /\ UNCHANGED <<variant, redirectUrl, initialSearch, search, debug,
                 firebaseAuth, mounted, effectError, tokenChecked, state,
                 tokDirty, subDirty, navDirty, subsLive, eventQ, sdkUser,
                 exchanges, errorLog, ctx, snapshots, logoutUrl, logouts,
                 lastEvent>>

RegisterWithRedirect ==
  /\ ConsumerCanCall("registerWithRedirect")
  /\ stimuli < MaxStimuli
  /\ stimuli' = stimuli + 1
  /\ \E params \in LoginParams :
       Redirect("registerWithRedirect", params,
                RegisterRedirect(params, redirectUrl))
  /\ UNCHANGED <<variant, redirectUrl, initialSearch, search, debug,
                 firebaseAuth, mounted, effectError, tokenChecked, state,
                 tokDirty, subDirty, navDirty, subsLive, eventQ, sdkUser,
                 exchanges, errorLog, ctx, snapshots, logoutUrl, logouts,
                 lastEvent>>

\* a getter hands its URL (or its exception) back and does nothing else
Return(op, params, u) ==
  returned' = [op |-> op, params |-> params, out |-> u, nav |-> Undefined]

GetLoginUrl ==
  /\ ConsumerCanCall("getLoginUrl")
  /\ \E params \in GetterParams :
       Return("getLoginUrl", params, getLoginUrl(params, redirectUrl))
  /\ UNCHANGED <<variant, redirectUrl, initialSearch, search, debug,
                 firebaseAuth, stimuli, mounted, effectError, tokenChecked,
                 state, tokDirty, subDirty, navDirty, subsLive, eventQ,
                 sdkUser, exchanges, errorLog, ctx, snapshots, logoutUrl,
                 logouts, navLog, lastEvent>>

GetRegisterUrl ==
  /\ ConsumerCanCall("getRegisterUrl")
  /\ \E params \in GetterParams :
       Return("getRegisterUrl", params, getRegisterUrl(params, redirectUrl))
  /\ UNCHANGED <<variant, redirectUrl, initialSearch, search, debug,
                 firebaseAuth, stimuli, mounted, effectError, tokenChecked,
                 state, tokDirty, subDirty, navDirty, subsLive, eventQ,
                 sdkUser, exchanges, errorLog, ctx, snapshots, logoutUrl,
                 logouts, navLog, lastEvent>>

\* getAuthUrl: the URL is computed, then logoutUrl.current = undefined (not
\* reached when the computation throws)
GetAuthUrl ==
  /\ ConsumerCanCall("getAuthUrl")
  /\ \E params \in AuthUrlParams :
       LET u == getAuthUrl(logoutUrl, params, redirectUrl) IN
       /\ Return("getAuthUrl", params, u)
       /\ logoutUrl' = IF u.ok THEN Undefined ELSE logoutUrl
  /\ UNCHANGED <<variant, redirectUrl, initialSearch, search, debug,
                 firebaseAuth, stimuli, mounted, effectError, tokenChecked,
                 state, tokDirty, subDirty, navDirty, subsLive, eventQ,
                 sdkUser, exchanges, errorLog, ctx, snapshots, logouts,
                 navLog, lastEvent>>

\* the steps of a page load whose consumers call no URL operation
LifecycleNext ==
  \/ FlushEffects
  \/ ExchangeSettle
  \/ DeliverAuthEvent
  \/ Render
  \/ PropChange
  \/ Unmount
  \/ SdkChange
  \/ Logout
  \/ SignOutSettle

Next ==
  \/ LifecycleNext
  \/ LoginWithRedirect
  \/ RegisterWithRedirect
  \/ GetLoginUrl
  \/ GetRegisterUrl
  \/ GetAuthUrl

Spec == Init /\ [][Next]_vars

\* ENABLED <<FlushEffects>>_vars: a flush always clears a scheduled effect
FlushEnabled == mounted /\ (tokDirty \/ subDirty \/ navDirty)

\* WF_vars(FlushEffects), with its ENABLED written out as FlushEnabled
FlushFairness == []<>(~FlushEnabled) \/ []<><<FlushEffects>>_vars

\* React flushes scheduled effects and renders; the SDK settles its
\* promises and delivers the events it has queued
Fairness ==
  /\ FlushFairness
  /\ WF_vars(Render)
  /\ WF_vars(DeliverAuthEvent)
  /\ WF_vars(ExchangeSettle)
  /\ WF_vars(SignOutSettle)

\* The URL operations change only returned, navLog, logoutUrl and stimuli,
\* which no guard of a lifecycle step reads except the stimuli budget, so
\* the liveness of initialization is that of the lifecycle steps.
LiveSpec == Init /\ [][LifecycleNext]_vars /\ Fairness

\* ------------------------------------------------------------------------
\* Properties
\* ------------------------------------------------------------------------

HasExchange(st) == \E i \in 1..Len(exchanges) : exchanges[i].status = st

StatePresent(srch) == Truthy(URLSearchParams_get(srch))

\* the token a valid state parameter carries
ExpectedToken(srch) ==
  IF srch = JStr(FormEncode(B64Enc(TokenJson))) THEN <<116>> ELSE <<116, 126>>

Published(u) ==
  /\ ctx.t = "context"
  /\ ctx.user = u
  /\ variant # "autoRedirect" => (ctx.isAuthenticated /\ ~ctx.isLoading)

\* C1: a state parameter that is not valid base64 or does not decode to JSON
\* is treated like an absent one: once the token-exchange effect has run, no
\* error has escaped it and the token check is complete.
C1_MalformedStateIsCaught ==
  (initialSearch \in MalformedSearches /\ ~tokDirty)
    => (effectError = "none" /\ tokenChecked)

\* C2: once an exchange is started the token check is eventually complete,
\* whether it resolves or rejects; a rejection is logged and starts no other
\* exchange, the subscription is still established and the session reaches
\* loading=false with the user the SDK reports (as long as the provider
\* stays mounted).
C2_ExchangeAlwaysCompletesTokenCheck ==
  /\ [][\A i \in 1..Len(exchanges) :
          ExchangeReject(i) =>
            /\ Len(exchanges') = Len(exchanges)
            /\ Len(errorLog') = Len(errorLog) + 1
            /\ mounted => tokenChecked']_vars
  /\ [][\A i \in 1..Len(exchanges) : \A u \in Users :
          ExchangeResolve(i, u) => (mounted => tokenChecked')]_vars
  /\ [][DeliverAuthEvent => state' = [loading |-> FALSE, user |-> Head(eventQ)]]_vars
  /\ HasExchange("pending") ~> (tokenChecked \/ ~mounted)
  /\ HasExchange("rejected") ~> ((subsLive > 0 /\ ~state.loading) \/ ~mounted)

C2_Witness ==
  /\ HasExchange("rejected")
  /\ ~HasExchange("resolved")
  /\ Len(exchanges) = 1
  /\ Len(errorLog) = 1
  /\ tokenChecked
  /\ subsLive > 0
  /\ state = [loading |-> FALSE, user |-> NoUser]

\* C3: when the exchange has succeeded and the SDK's user is u, the context
\* eventually reports isLoading=false, isAuthenticated=true and user=u (as
\* long as the provider stays mounted and the SDK's user stays u).
C3_SignedInUserIsPublished ==
  \A u \in Users :
    (mounted /\ HasExchange("resolved") /\ sdkUser = u)
      ~> (Published(u) \/ ~mounted \/ sdkUser # u)

C3_Witness ==
  /\ HasExchange("resolved")
  /\ initialSearch = JStr(FormEncode(B64Enc(TokenJson)))
  /\ variant = "loginUrl"
  /\ ctx = [t |-> "context", user |-> "u1", isAuthenticated |-> TRUE,
            isLoading |-> FALSE]

\* C4: within one mount the exchange is invoked at most once, exactly once
\* by the time the token check is complete when a state parameter was
\* present, and never when it was absent.
C4_ExchangeExactlyOnce ==
  /\ Len(exchanges) <= 1
  /\ ~StatePresent(initialSearch) => Len(exchanges) = 0
  /\ (StatePresent(initialSearch) /\ tokenChecked) => Len(exchanges) = 1

\* C5 (as stated): the exchange receives exactly the decoded token and,
\* once an exchange has succeeded, the URL holds no state parameter.
C5_TokenPassedAndStateStripped ==
  initialSearch \in ValidSearches =>
    /\ \A i \in 1..Len(exchanges) :
         exchanges[i].token = JStr(ExpectedToken(initialSearch))
    /\ HasExchange("resolved") => ~StatePresent(search)

\* C5 (amended): the exchange receives exactly the decoded token; once an
\* exchange has succeeded the URL holds no state parameter in the variants
\* that call replaceState (pendingUrl, loginUrl), and the other variants
\* (minimal, autoRedirect) leave the URL as it was loaded.
C5_TokenPassedAndStateStrippedWhereSupported ==
  initialSearch \in ValidSearches =>
    /\ \A i \in 1..Len(exchanges) :
         exchanges[i].token = JStr(ExpectedToken(initialSearch))
    /\ (HasExchange("resolved") /\ StripsState(variant)) => search = JNull
    /\ ~StripsState(variant) => search = initialSearch

C5_Witness ==
  /\ initialSearch = JStr(FormEncode(B64Enc(TokenRedirectJson)))
  /\ variant = "pendingUrl"
  /\ HasExchange("resolved")
  /\ exchanges[1].token = JStr(<<116, 126>>)
  /\ search = JNull

\* C6: isLoading starts true and, once false, is never true again.
C6_LoadingMonotonic ==
  /\ state.loading
  /\ [][~state.loading => ~state'.loading]_vars

C6_Witness ==
  /\ ~state.loading
  /\ Cardinality(snapshots) >= 3
  /\ stimuli >= 1

\* C7: in every published context value isAuthenticated is true exactly when
\* user is non-null, and isLoading and user are those of one value the
\* session state has held.
C7_ContextConsistent ==
  (ctx.t = "context" /\ variant # "autoRedirect") =>
    /\ ctx.isAuthenticated = (ctx.user # NoUser)
    /\ [loading |-> ctx.isLoading, user |-> ctx.user] \in snapshots

C7_Witness ==
  /\ ctx.t = "context"
  /\ variant # "autoRedirect"
  /\ ctx.user = "u1"
  /\ ctx.isAuthenticated
  /\ state.user = NoUser

\* C8: no navigation caused by logout is issued before that call's sign-out
\* has settled.
C8_SignOutSettledBeforeRedirect ==
  \A n \in 1..Len(navLog) :
    navLog[n].by = "logout" => navLog[n].signOut \in {"resolved", "rejected"}

NavsOf(i) == {n \in 1..Len(navLog) : navLog[n].by = "logout" /\ navLog[n].call = i}

\* C9: every call of logout calls signOut, once, whatever its params, and a
\* call with noRedirect=true issues no navigation.
C9_SignOutAlwaysAttempted ==
  \A i \in 1..Len(logouts) :
    /\ logouts[i].signOut # "notcalled"
    /\ logouts[i].params.noRedirect => NavsOf(i) = {}

\* the redirectUrl a constructed URL's state parameter decodes to
DecodedRedirect(url) ==
  LET d == atob(url.state) IN
  IF ~d.ok THEN Undefined
  ELSE LET j == JSON_parse(d.val) IN
    IF ~j.ok THEN Undefined
    ELSE GetProp(j.val, <<114, 101, 100, 105, 114, 101, 99, 116, 85, 114, 108>>)

\* C10: in the loginUrl variant a logout call with noRedirect unset calls
\* signOut and issues exactly one navigation: to params.redirectUrl when
\* given, else to https://{domain}/sign-in?state=... whose state decodes to
\* {redirectUrl: configured default}.
C10_LogoutNavigatesOnce ==
  variant = "loginUrl" =>
    \A i \in 1..Len(logouts) :
      ~logouts[i].params.noRedirect =>
        /\ logouts[i].signOut # "notcalled"
        /\ Cardinality(NavsOf(i)) = 1
        /\ \A n \in NavsOf(i) :
             IF logouts[i].params.redirectUrl.t = "string"
             THEN navLog[n].url = logouts[i].params.redirectUrl
             ELSE /\ navLog[n].url.t = "authUrl"
                  /\ navLog[n].url.host = Domain
                  /\ navLog[n].url.path = "sign-in"
                  /\ DecodedRedirect(navLog[n].url) = JStr(redirectUrl)

\* C11: when signOut rejects, the promise returned by logout rejects with
\* that error, and the provider neither catches nor logs it.
C11_SignOutRejectionPropagates ==
  /\ \A i \in 1..Len(logouts) :
       logouts[i].signOut = "rejected" =>
         (logouts[i].result = "rejected" /\ logouts[i].error = "signOut")
  /\ \A n \in 1..Len(errorLog) : errorLog[n] # "signOut"

C11_Witness ==
  \E i \in 1..Len(logouts) :
    /\ logouts[i].signOut = "rejected"
    /\ logouts[i].result = "rejected"
    /\ variant = "minimal"

\* the value a constructed URL's state parameter decodes to (base64, then
\* JSON), Undefined when it does not decode
DecodedState(url) ==
  LET d == atob(url.state) IN
  IF ~d.ok THEN Undefined
  ELSE LET j == JSON_parse(d.val) IN
    IF ~j.ok THEN Undefined ELSE j.val

\* the payload {redirectUrl: x}
RedirectPayload(x) ==
  JObj(<< <<(<<114, 101, 100, 105, 114, 101, 99, 116, 85, 114, 108>>), JStr(x)>> >>)

\* C12: loginWithRedirect(params) / registerWithRedirect(params) replaces
\* the page by https://{domain}/sign-in (resp. /sign-up) with a state that
\* decodes to exactly {redirectUrl: X} for params.redirectUrl = X, whatever
\* the string X, and to exactly {redirectUrl: configured default} when
\* params.redirectUrl is missing.
C12_RedirectRoundTrip ==
  returned.op \in {"loginWithRedirect", "registerWithRedirect"} =>
    /\ returned.out.ok
    /\ returned.nav.t = "authUrl"
    /\ navLog # <<>>
    /\ navLog[Len(navLog)].url = returned.nav
    /\ returned.nav.host = Domain
    /\ returned.nav.path = (IF returned.op = "loginWithRedirect"
                            THEN "sign-in" ELSE "sign-up")
    /\ DecodedState(returned.nav) =
         RedirectPayload(IF returned.params.redirectUrl.t = "string"
                         THEN returned.params.redirectUrl.s
                         ELSE redirectUrl)

Getters == {"getLoginUrl", "getRegisterUrl", "getAuthUrl"}

\* the page a getter's URL points to
GetterPage(op, params) ==
  CASE op = "getLoginUrl" -> "sign-in"
    [] op = "getRegisterUrl" -> "sign-up"
    [] OTHER -> PageOrSignIn(params)

\* the URL (or the exception) that params, the domain and the configured
\* default redirect alone determine
UrlOfParams(op, params) ==
  AuthUrl(GetterPage(op, params), RedirectOrDefault(params, redirectUrl))

\* C13 (as stated): a URL getter never navigates and hands back what its
\* params, the domain and the configured default redirect alone determine,
\* whatever happened before the call; getLoginUrl(p) / getRegisterUrl(p)
\* hand back what loginWithRedirect(p) / registerWithRedirect(p) navigate to.
C13_GettersPure ==
  returned.op \in Getters =>
    /\ returned.nav = Undefined
    /\ \A n \in 1..Len(navLog) : navLog[n].by \notin Getters
    /\ returned.out = UrlOfParams(returned.op, returned.params)
    /\ returned.op = "getLoginUrl" =>
         returned.out = LoginRedirect(returned.params, redirectUrl)
    /\ returned.op = "getRegisterUrl" =>
         returned.out = RegisterRedirect(returned.params, redirectUrl)

\* C13 (amended): no URL getter navigates. getLoginUrl and getRegisterUrl
\* hand back what their params, the domain and the configured default
\* redirect alone determine, which is what loginWithRedirect /
\* registerWithRedirect build for the same params. getAuthUrl is not pure:
\* it hands back the pending logout URL when one is stored, and only
\* otherwise what its params and the configuration determine.
C13_LoginRegisterGettersPure ==
  /\ [](returned.op \in Getters =>
          /\ returned.nav = Undefined
          /\ \A n \in 1..Len(navLog) : navLog[n].by \notin Getters)
  /\ [](returned.op \in {"getLoginUrl", "getRegisterUrl"} =>
          /\ returned.out = UrlOfParams(returned.op, returned.params)
          /\ returned.op = "getLoginUrl" =>
               returned.out = LoginRedirect(returned.params, redirectUrl)
          /\ returned.op = "getRegisterUrl" =>
               returned.out = RegisterRedirect(returned.params, redirectUrl))
  /\ [][returned'.op \in Getters => navLog' = navLog]_vars
  /\ [][returned'.op = "getAuthUrl" =>
          returned'.out = IF logoutUrl # Undefined THEN Ok(logoutUrl)
                          ELSE UrlOfParams("getAuthUrl", returned'.params)]_vars

C13_Witness ==
  /\ returned.op = "getLoginUrl"
  /\ returned.params.redirectUrl = JStr(<<120>>)
  /\ returned.out.ok
  /\ logouts # <<>>
  /\ navLog # <<>>
  /\ state.user = "u1"

\* a step that is a call of logout
IsLogoutCall == Len(logouts') = Len(logouts) + 1

\* C14: the pending logout redirect is consumed at most once. A call
\* logout({redirectUrl: X}) stores X; the next getAuthUrl call hands back
\* the stored URL whatever its params and clears it; a getAuthUrl call with
\* nothing stored hands back https://{domain}/{page or sign-in}?state=...
\* built from its params; only logout stores and only getAuthUrl clears.
C14_PendingLogoutUrlConsumedOnce ==
  /\ [][(IsLogoutCall /\ variant = "pendingUrl"
          /\ logouts'[Len(logouts')].params.redirectUrl.t = "string")
        => logoutUrl' = logouts'[Len(logouts')].params.redirectUrl]_vars
  /\ [][returned'.op = "getAuthUrl" =>
          /\ logoutUrl' = Undefined
          /\ IF logoutUrl # Undefined
             THEN returned'.out = Ok(logoutUrl)
             ELSE /\ returned'.out.ok
                  /\ returned'.out.val.t = "authUrl"
                  /\ returned'.out.val.host = Domain
                  /\ returned'.out.val.path = PageOrSignIn(returned'.params)
                  /\ DecodedState(returned'.out.val) =
                       RedirectPayload(
                         RedirectOrDefault(returned'.params, redirectUrl))]_vars
  /\ [][logoutUrl' # logoutUrl =>
          IF logoutUrl' = Undefined THEN returned'.op = "getAuthUrl"
          ELSE IsLogoutCall]_vars

\* C15: building a redirect URL never throws: every call of
\* loginWithRedirect, registerWithRedirect, logout and the URL getters
\* completes without an exception of the URL construction, and a URL built
\* without params.redirectUrl carries the configured default.
C15_UrlConstructionNeverThrows ==
  /\ returned.op # "none" => returned.out.ok
  /\ \A i \in 1..Len(logouts) : logouts[i].error # "InvalidCharacterError"
  /\ (/\ returned.op \in {"getLoginUrl", "getRegisterUrl"}
      /\ returned.params.redirectUrl = Undefined
      /\ returned.out.ok)
       => DecodedState(returned.out.val) = RedirectPayload(redirectUrl)

\* C16: a subscription is live only once the token check is complete, and
\* while a custom-token exchange is pending no auth-state event is applied
\* to the session state, which is still loading.
C16_SubscriptionAfterTokenCheck ==
  /\ [](subsLive > 0 => tokenChecked)
  /\ [](HasExchange("pending") => state.loading)
  /\ [][HasExchange("pending") => state' = state]_vars

\* C17: at most one auth-state subscription is live at any moment, none is
\* live once the provider is unmounted (also after firebaseAuth or debug
\* changed and the effect subscribed again), and none is created after
\* the unmount, whenever the token exchange settles.
C17_SubscriptionScoped ==
  /\ [](subsLive <= 1)
  /\ [](~mounted => subsLive = 0)
  /\ [][~mounted => subsLive' = 0]_vars

C17_Witness ==
  /\ ~mounted
  /\ effectError = "none"
  /\ firebaseAuth = 1
  /\ ~subDirty
  /\ tokenChecked
  /\ ~state.loading
  /\ subsLive = 0

\* a step in which the auth-state callback runs on the event at the head
\* of the queue
IsAuthStateCallback ==
  /\ subsLive > 0
  /\ eventQ # <<>>
  /\ eventQ' = Tail(eventQ)
  /\ state' = [loading |-> FALSE, user |-> Head(eventQ)]

\* C18: the session state is changed only by the auth-state callback:
\* calls of loginWithRedirect, registerWithRedirect, logout and the URL
\* getters, the settling of signOut and the completion of the token
\* exchange leave {loading, user} as it was.
C18_StateChangedOnlyByCallback ==
  /\ [][state' # state => IsAuthStateCallback]_vars
  /\ [][(\/ returned'.op # "none"
         \/ logouts' # logouts
         \/ exchanges' # exchanges
         \/ tokenChecked' # tokenChecked) => state' = state]_vars

C18_Witness ==
  /\ \E i \in 1..Len(logouts) : logouts[i].signOut = "resolved"
  /\ sdkUser = NoUser
  /\ state = [loading |-> FALSE, user |-> "u1"]
  /\ eventQ # <<>>

\* C19: the session state is the initial one until the first auth-state
\* event is delivered, and from then on {loading: false, user: u} for the
\* user u (or null) of the event delivered last, whatever the earlier
\* events carried.
C19_StateIsLastEvent ==
  state = IF lastEvent = "none" THEN InitialState
          ELSE [loading |-> FALSE, user |-> lastEvent]

C19_Witness ==
  /\ lastEvent = "u2"
  /\ state = [loading |-> FALSE, user |-> "u2"]
  /\ [loading |-> FALSE, user |-> "u1"] \in snapshots
  /\ [loading |-> FALSE, user |-> NoUser] \in snapshots

\* C20: while the session state is loading the provider renders the loader
\* (or nothing) and no context value; every context value it publishes has
\* isLoading = false, and none is published before the first auth-state
\* event.
C20_LoaderWhileLoading ==
  /\ state.loading => ctx \in {Loader, Unrendered}
  /\ (ctx.t = "context" /\ variant # "autoRedirect") => ~ctx.isLoading
  /\ ctx.t = "context" => lastEvent # "none"

C20_Witness ==
  /\ mounted
  /\ state.loading
  /\ ctx = Loader
  /\ subsLive = 1
  /\ eventQ # <<>>
  /\ debug

\* a step in which a logout call of the pendingUrl variant reaches its
\* signOut call
IsPendingUrlLogout ==
  /\ variant = "pendingUrl"
  /\ IsLogoutCall
  /\ logouts'[Len(logouts')].signOut = "pending"

\* C21: in the pendingUrl variant logout writes the pending logout redirect
\* before it awaits signOut, and nothing takes it back: when signOut rejects
\* the stored value stays, the user and the session state stay as they
\* were, and the next getAuthUrl call hands back the stored logout redirect
\* whatever its params.
C21_PendingLogoutUrlNotRolledBack ==
  /\ [][IsPendingUrlLogout =>
          /\ Truthy(logoutUrl')
          /\ Ok(logoutUrl') =
               LogoutRedirect(logouts'[Len(logouts')].params, redirectUrl)]_vars
  /\ [][(\E i \in 1..Len(logouts) :
            /\ logouts[i].signOut = "pending"
            /\ logouts'[i].signOut = "rejected") =>
          /\ logoutUrl' = logoutUrl
          /\ sdkUser' = sdkUser
          /\ state' = state]_vars
  /\ [][logoutUrl' # logoutUrl =>
          \/ IsLogoutCall
          \/ returned'.op = "getAuthUrl"]_vars
  /\ [][(returned'.op = "getAuthUrl" /\ Truthy(logoutUrl)) =>
          /\ returned'.out = Ok(logoutUrl)
          /\ logoutUrl' = Undefined]_vars

C21_Witness ==
  /\ variant = "pendingUrl"
  /\ Len(logouts) = 1
  /\ logouts[1].signOut = "rejected"
  /\ logouts[1].params.redirectUrl = JStr(<<120>>)
  /\ returned.op = "getAuthUrl"
  /\ returned.params.redirectUrl = Undefined
  /\ returned.out = Ok(JStr(<<120>>))
  /\ sdkUser = "u1"
  /\ state.user = "u1"

\* a step in which the auto-redirect effect runs
IsAutoRedirectEffectRun == variant = "autoRedirect" /\ navDirty /\ ~navDirty'

\* a step that issues a navigation
IsNavigation == Len(navLog') = Len(navLog) + 1

\* C22: in the autoRedirect variant the provider renders its children
\* exactly when the session state has loading = false and a non-null user;
\* every change of the state schedules the redirect effect, and every run
\* of it with loading = false and user = null replaces the page by
\* https://{domain}/sign-in with a state that decodes to
\* {redirectUrl: configured default}; no navigation is issued while loading
\* is true or a user is present.
C22_AutoRedirectWhenSignedOut ==
  /\ []((variant = "autoRedirect" /\ ctx.t = "context") =>
          /\ ctx.user # NoUser
          /\ [loading |-> FALSE, user |-> ctx.user] \in snapshots)
  /\ [][(variant = "autoRedirect" /\ mounted' /\ ctx' # ctx) =>
          (ctx'.t = "context") = (~state.loading /\ state.user # NoUser)]_vars
  /\ [][(variant = "autoRedirect" /\ state' # state) => navDirty']_vars
  /\ [][(IsAutoRedirectEffectRun /\ ~state.loading /\ state.user = NoUser) =>
          /\ IsNavigation
          /\ navLog'[Len(navLog')].by = "autoRedirect"
          /\ navLog'[Len(navLog')].url.t = "authUrl"
          /\ navLog'[Len(navLog')].url.host = Domain
          /\ navLog'[Len(navLog')].url.path = "sign-in"
          /\ DecodedState(navLog'[Len(navLog')].url) =
               RedirectPayload(redirectUrl)]_vars
  /\ [][(variant = "autoRedirect" /\ IsNavigation) =>
          /\ IsAutoRedirectEffectRun
          /\ ~state.loading
          /\ state.user = NoUser]_vars

====
